---- MODULE Spec2Model ----
(***************************************************************************)
(* A model of src/repro.cpp: concurrent_bounded_queue (two counting        *)
(* semaphores and a mutex-guarded std::queue), thread_group, and the       *)
(* stress harness in main().                                               *)
(*                                                                         *)
(* Every thread has a program counter pc[t].  One action models one step   *)
(* of one thread between two points where another thread can interfere:    *)
(* a semaphore operation, a mutex lock or unlock, the critical section, an *)
(* atomic load, store or increment, a latch operation, a join.             *)
(*                                                                         *)
(* Two specifications share the queue's actions:                          *)
(*   Spec       main() as written: one producer (the main thread) and      *)
(*              num_threads consumers per round;                           *)
(*   QueueSpec  the queue alone, called by NumProducers producers and      *)
(*              num_threads consumers in any interleaving.                 *)
(* LiveSpec is Spec with the fairness of a fair scheduler.                 *)
(***************************************************************************)
EXTENDS Integers, Sequences, FiniteSets

\* Scaled-down values of the program's sizes (32, 20000, 256 and 8 in the source),
\* in the source's order: num_threads < N < num_enqueues_per_run, so that main
\* finds the queue full and more than one round runs.
N == 3
num_runs == 2
num_enqueues_per_run == 4
num_threads == 2
\* QueueSpec only: the number of producer threads and of enqueue calls they make.
NumProducers == 2
MaxItems == 4

VARIABLES
  items,            \* std::queue<T> items
  items_mtx,        \* std::mutex items_mtx: the thread holding it, or NoThread
  items_produced,   \* the value of counting_semaphore items_produced
  remaining_space,  \* the value of counting_semaphore remaining_space
  pc,               \* each thread's position
  arg,              \* enqueue's parameter t, per calling thread
  tmp,              \* try_dequeue_for's local tmp / the consumer's f, per thread
  count,            \* std::atomic<int> count
  runs,             \* main's loop variable runs
  i,                \* main's inner loop variables (i, and the index in ~thread_group)
  stop_requested,   \* std::atomic<bool> stop_requested
  stop_life,        \* lifetime of the round's stop_requested object
  l,                \* the counter of std::latch l
  l_life,           \* lifetime of the round's latch object
  nextId,           \* history: the items appended to items so far, plus one
  removed,          \* history: ids in the order try_dequeue_for took them
  arrivals          \* history: barrier tasks run by each consumer this round

qvars == <<items, items_mtx, items_produced, remaining_space>>
hvars == <<count, runs, i, stop_requested, stop_life, l, l_life, arrivals>>
vars == <<items, items_mtx, items_produced, remaining_space, pc, arg, tmp,
          count, runs, i, stop_requested, stop_life, l, l_life,
          nextId, removed, arrivals>>

main == 0
Consumers == 1..num_threads
Producers == (num_threads + 1)..(num_threads + NumProducers)
Threads == {main} \cup Consumers \cup Producers
NoThread == -1

\* An item is a closure: its kind says what it does when called.  The id is
\* history: 0 until the item is appended to items, then its place in the order
\* of appends.  NoItem is an empty std::optional<T> or an absent argument.
NoItem == [id |-> 0, kind |-> "none"]
WorkTask == [id |-> 0, kind |-> "work"]
BarrierTask == [id |-> 0, kind |-> "barrier"]
Tagged(x, n) == [id |-> n, kind |-> x.kind]

----------------------------------------------------------------------------
(* std::counting_semaphore and std::latch come from this library's headers: *)
(* a counter that release increments and acquire decrements when positive, *)
(* and a counter that arrive decrements and wait watches for zero.          *)
SemRelease(v) == v + 1
SemCanAcquire(v) == v > 0
SemAcquire(v) == v - 1
LatchArrive(v) == v - 1
LatchReady(v) == v = 0

\* assert(false): the process aborts; t is the thread whose assertion failed.
AbortBy(t) == [u \in Threads |-> IF u = t THEN "assert_failed" ELSE "aborted"]

\* std::queue operations.  EmplaceFront inserts at the head instead of the
\* tail, and PopNothing leaves the head in place: the slips the FIFO and
\* the exactly-once properties are tested against.
EmplaceFront(q, x) == <<x>> \o q
Emplace(q, x) == Append(q, x)
Front(q) == Head(q)
PopNothing(q) == q
Pop(q) == Tail(q)

\* The semaphores' initial values (remaining_space_one_more: one slot too many).
items_produced_init == 0
remaining_space_one_more == N + 1
remaining_space_init == N

----------------------------------------------------------------------------
(* concurrent_bounded_queue::enqueue, called by thread t with arg[t]. *)

\* EnqAcquire without the acquire: enqueue goes to the lock without a slot.
EnqAcquireForgotten(t) ==
  /\ pc[t] = "enq_acquire"
  /\ pc' = [pc EXCEPT ![t] = "enq_lock"]
  /\ UNCHANGED <<qvars, arg, tmp, hvars, nextId, removed>>

\* remaining_space.acquire(): blocks while the value is zero.
EnqAcquire(t) ==
  /\ pc[t] = "enq_acquire"
  /\ SemCanAcquire(remaining_space)
  /\ remaining_space' = SemAcquire(remaining_space)
  /\ pc' = [pc EXCEPT ![t] = "enq_lock"]
  /\ UNCHANGED <<items, items_mtx, items_produced, arg, tmp, hvars,
                 nextId, removed>>

\* std::scoped_lock l(items_mtx): blocks while another thread holds the mutex.
EnqLock(t) ==
  /\ pc[t] = "enq_lock"
  /\ items_mtx = NoThread
  /\ items_mtx' = t
  /\ pc' = [pc EXCEPT ![t] = "enq_emplace"]
  /\ UNCHANGED <<items, items_produced, remaining_space, arg, tmp, hvars,
                 nextId, removed>>

\* items.emplace(std::forward<decltype(t)>(t))
EnqEmplace(t) ==
  /\ pc[t] = "enq_emplace"
  /\ items' = Emplace(items, Tagged(arg[t], nextId))
  /\ nextId' = nextId + 1
  /\ pc' = [pc EXCEPT ![t] = "enq_unlock"]
  /\ UNCHANGED <<items_mtx, items_produced, remaining_space, arg, tmp, hvars,
                 removed>>

\* EnqUnlock with the block's closing brace after the release: the lock is
\* still held when enqueue goes on to items_produced.release().
EnqUnlockAfterRelease(t) ==
  /\ pc[t] = "enq_unlock"
  /\ pc' = [pc EXCEPT ![t] = "enq_release"]
  /\ UNCHANGED <<qvars, arg, tmp, hvars, nextId, removed>>

\* The scoped_lock's destructor at the end of the block.
EnqUnlock(t) ==
  /\ pc[t] = "enq_unlock"
  /\ items_mtx' = NoThread
  /\ pc' = [pc EXCEPT ![t] = "enq_release"]
  /\ UNCHANGED <<items, items_produced, remaining_space, arg, tmp, hvars,
                 nextId, removed>>

\* EnqRelease without the release: enqueue returns and no unit is produced.
EnqReleaseForgotten(t) ==
  /\ pc[t] = "enq_release"
  /\ pc' = [pc EXCEPT ![t] = "enq_ret"]
  /\ UNCHANGED <<qvars, arg, tmp, hvars, nextId, removed>>

\* items_produced.release(), then return.
EnqRelease(t) ==
  /\ pc[t] = "enq_release"
  /\ items_produced' = SemRelease(items_produced)
  /\ pc' = [pc EXCEPT ![t] = "enq_ret"]
  /\ UNCHANGED <<items, items_mtx, remaining_space, arg, tmp, hvars,
                 nextId, removed>>

----------------------------------------------------------------------------
(* concurrent_bounded_queue::try_dequeue_for, called by thread t. *)

\* DeqTryAcquire without its early return: a failed timed acquire goes on to the lock.
DeqTryAcquireNoReturn(t) ==
  /\ pc[t] = "deq_try"
  /\ tmp' = [tmp EXCEPT ![t] = NoItem]
  /\ items_produced' =
       IF SemCanAcquire(items_produced) THEN SemAcquire(items_produced) ELSE items_produced
  /\ pc' = [pc EXCEPT ![t] = "deq_lock"]
  /\ UNCHANGED <<items, items_mtx, remaining_space, arg, hvars, nextId, removed>>

\* DeqTryAcquire whose failed timed acquire counts the semaphore down all the same.
DeqTryAcquireCountsDown(t) ==
  /\ pc[t] = "deq_try"
  /\ tmp' = [tmp EXCEPT ![t] = NoItem]
  /\ items_produced' = SemAcquire(items_produced)
  /\ pc' = [pc EXCEPT ![t] = IF SemCanAcquire(items_produced) THEN "deq_lock" ELSE "deq_ret"]
  /\ UNCHANGED <<items, items_mtx, remaining_space, arg, hvars, nextId, removed>>

\* std::optional<T> tmp; if (!items_produced.try_acquire_for(rel_time)) return tmp;
\* The timed acquire takes a unit when there is one; it fails when the timeout
\* elapses with the value at zero.
DeqTryAcquire(t) ==
  /\ pc[t] = "deq_try"
  /\ tmp' = [tmp EXCEPT ![t] = NoItem]
  /\ IF SemCanAcquire(items_produced)
       THEN /\ items_produced' = SemAcquire(items_produced)
            /\ pc' = [pc EXCEPT ![t] = "deq_lock"]
       ELSE /\ items_produced' = items_produced
            /\ pc' = [pc EXCEPT ![t] = "deq_ret"]
  /\ UNCHANGED <<items, items_mtx, remaining_space, arg, hvars,
                 nextId, removed>>

\* DeqLock that does not wait for the mutex: it enters the block at once.
DeqLockNoWait(t) ==
  /\ pc[t] = "deq_lock"
  /\ items_mtx' = t
  /\ pc' = [pc EXCEPT ![t] = "deq_front"]
  /\ UNCHANGED <<items, items_produced, remaining_space, arg, tmp, hvars,
                 nextId, removed>>

\* sleep_for(500ns), then std::scoped_lock l(items_mtx).
DeqLock(t) ==
  /\ pc[t] = "deq_lock"
  /\ items_mtx = NoThread
  /\ items_mtx' = t
  /\ pc' = [pc EXCEPT ![t] = "deq_front"]
  /\ UNCHANGED <<items, items_produced, remaining_space, arg, tmp, hvars,
                 nextId, removed>>

\* assert(!items.empty()); tmp = std::move(items.front()); items.pop();
\* A failed assertion aborts the process: the thread stops at "assert_failed"
\* and every other thread at "aborted", where no action is enabled.
DeqFrontPop(t) ==
  /\ pc[t] = "deq_front"
  /\ IF items = <<>>
       THEN /\ pc' = AbortBy(t)
            /\ UNCHANGED <<items, tmp, removed>>
       ELSE /\ tmp' = [tmp EXCEPT ![t] = Front(items)]
            /\ items' = Pop(items)
            /\ removed' = Append(removed, Front(items).id)
            /\ pc' = [pc EXCEPT ![t] = "deq_unlock"]
  /\ UNCHANGED <<items_mtx, items_produced, remaining_space, arg, hvars,
                 nextId>>

\* The scoped_lock's destructor at the end of the block.
DeqUnlock(t) ==
  /\ pc[t] = "deq_unlock"
  /\ items_mtx' = NoThread
  /\ pc' = [pc EXCEPT ![t] = "deq_release"]
  /\ UNCHANGED <<items, items_produced, remaining_space, arg, tmp, hvars,
                 nextId, removed>>

\* DeqRelease without the release: the slot is never given back.
DeqReleaseForgotten(t) ==
  /\ pc[t] = "deq_release"
  /\ pc' = [pc EXCEPT ![t] = "deq_ret"]
  /\ UNCHANGED <<qvars, arg, tmp, hvars, nextId, removed>>

\* remaining_space.release(); return tmp;
DeqRelease(t) ==
  /\ pc[t] = "deq_release"
  /\ remaining_space' = SemRelease(remaining_space)
  /\ pc' = [pc EXCEPT ![t] = "deq_ret"]
  /\ UNCHANGED <<items, items_mtx, items_produced, arg, tmp, hvars,
                 nextId, removed>>

----------------------------------------------------------------------------
(* QueueSpec: the queue with NumProducers producers and num_threads          *)
(* consumers that call enqueue and try_dequeue_for in any interleaving.      *)

QueueInit ==
  /\ items = <<>>
  /\ items_mtx = NoThread
  /\ items_produced = items_produced_init
  /\ remaining_space = remaining_space_init
  /\ pc = [t \in Threads |-> "idle"]
  /\ arg = [t \in Threads |-> NoItem]
  /\ tmp = [t \in Threads |-> NoItem]
  /\ count = 0
  /\ runs = 0
  /\ i = 0
  /\ stop_requested = FALSE
  /\ stop_life = "none"
  /\ l = 0
  /\ l_life = "none"
  /\ nextId = 1
  /\ removed = <<>>
  /\ arrivals = [c \in Consumers |-> 0]

\* The enqueue calls made so far: the items appended and the calls on their way there.
Calls ==
  (nextId - 1)
    + Cardinality({t \in Threads : pc[t] \in {"enq_acquire", "enq_lock", "enq_emplace"}})

\* A producer calls enqueue with an item.
CallEnqueue(t) ==
  /\ pc[t] = "idle"
  /\ Calls < MaxItems
  /\ arg' = [arg EXCEPT ![t] = WorkTask]
  /\ pc' = [pc EXCEPT ![t] = "enq_acquire"]
  /\ UNCHANGED <<qvars, tmp, hvars, nextId, removed>>

\* enqueue returns to the producer; its parameter goes out of scope.
ReturnEnqueue(t) ==
  /\ pc[t] = "enq_ret"
  /\ arg' = [arg EXCEPT ![t] = NoItem]
  /\ pc' = [pc EXCEPT ![t] = "idle"]
  /\ UNCHANGED <<qvars, tmp, hvars, nextId, removed>>

\* A consumer calls try_dequeue_for.
CallTryDequeueFor(t) ==
  /\ pc[t] = "idle"
  /\ pc' = [pc EXCEPT ![t] = "deq_try"]
  /\ UNCHANGED <<qvars, arg, tmp, hvars, nextId, removed>>

\* try_dequeue_for returns tmp to the consumer, which drops it and calls again.
ReturnTryDequeueFor(t) ==
  /\ pc[t] = "deq_ret"
  /\ tmp' = [tmp EXCEPT ![t] = NoItem]
  /\ pc' = [pc EXCEPT ![t] = "deq_try"]
  /\ UNCHANGED <<qvars, arg, hvars, nextId, removed>>

QueueNext ==
  \/ \E t \in Producers : CallEnqueue(t)
  \/ \E t \in Producers : EnqAcquire(t)
  \/ \E t \in Producers : EnqLock(t)
  \/ \E t \in Producers : EnqEmplace(t)
  \/ \E t \in Producers : EnqUnlock(t)
  \/ \E t \in Producers : EnqRelease(t)
  \/ \E t \in Producers : ReturnEnqueue(t)
  \/ \E t \in Consumers : CallTryDequeueFor(t)
  \/ \E t \in Consumers : DeqTryAcquire(t)
  \/ \E t \in Consumers : DeqLock(t)
  \/ \E t \in Consumers : DeqFrontPop(t)
  \/ \E t \in Consumers : DeqUnlock(t)
  \/ \E t \in Consumers : DeqRelease(t)
  \/ \E t \in Consumers : ReturnTryDequeueFor(t)

QueueSpec == QueueInit /\ [][QueueNext]_vars

----------------------------------------------------------------------------
(* Spec: main() and the consumer threads it starts.  The queue `tasks` is   *)
(* QueueInit's queue; main calls enqueue and the consumers try_dequeue_for. *)

\* The loop bounds of main (the OneMore variants run one iteration too many).
RunsLoopCond(r) == r < num_runs
WorkLoopOneMore(k) == k <= num_enqueues_per_run
WorkLoopCond(k) == k < num_enqueues_per_run
BarrierLoopOneMore(k) == k <= num_threads
BarrierLoopCond(k) == k < num_threads
LatchExpected == num_threads + 1

Init ==
  /\ items = <<>>
  /\ items_mtx = NoThread
  /\ items_produced = items_produced_init
  /\ remaining_space = remaining_space_init
  /\ pc = [t \in Threads |-> IF t = main THEN "round_begin" ELSE "unstarted"]
  /\ arg = [t \in Threads |-> NoItem]
  /\ tmp = [t \in Threads |-> NoItem]
  /\ count = 0
  /\ runs = 0
  /\ i = 0
  /\ stop_requested = FALSE
  /\ stop_life = "none"
  /\ l = 0
  /\ l_life = "none"
  /\ nextId = 1
  /\ removed = <<>>
  /\ arrivals = [c \in Consumers |-> 0]

\* for (runs = 0; runs < num_runs; ++runs) { std::atomic<bool> stop_requested(false);
\* The loop test, and the construction of the round's stop flag.
MainRoundBegin ==
  /\ pc[main] = "round_begin"
  /\ IF RunsLoopCond(runs)
       THEN /\ stop_requested' = FALSE
            /\ stop_life' = "alive"
            /\ arrivals' = [c \in Consumers |-> 0]
            /\ i' = 0
            /\ pc' = [pc EXCEPT ![main] = "spawn"]
       ELSE /\ pc' = [pc EXCEPT ![main] = "final_assert"]
            /\ UNCHANGED <<stop_requested, stop_life, arrivals, i>>
  /\ UNCHANGED <<qvars, arg, tmp, count, runs, l, l_life, nextId, removed>>

\* thread_group's constructor: members.emplace_back(std::thread(f)), count times.
\* The thread started runs the consumer lambda from its loop test.
MainSpawn ==
  /\ pc[main] = "spawn"
  /\ IF i < num_threads
       THEN /\ pc' = [pc EXCEPT ![i + 1] = "loop"]
            /\ i' = i + 1
       ELSE /\ pc' = [pc EXCEPT ![main] = "enq_work"]
            /\ i' = 0
  /\ UNCHANGED <<qvars, arg, tmp, count, runs, stop_requested, stop_life, l, l_life,
                 nextId, removed, arrivals>>

\* for (i = 0; i < num_enqueues_per_run; ++i) tasks.enqueue([&] { ++count; });
\* The loop test and the call; after the loop, std::latch l(num_threads + 1).
MainEnqueueWork ==
  /\ pc[main] = "enq_work"
  /\ IF WorkLoopCond(i)
       THEN /\ arg' = [arg EXCEPT ![main] = WorkTask]
            /\ pc' = [pc EXCEPT ![main] = "enq_acquire"]
            /\ UNCHANGED <<i, l, l_life>>
       ELSE /\ l' = LatchExpected
            /\ l_life' = "alive"
            /\ i' = 0
            /\ pc' = [pc EXCEPT ![main] = "enq_barrier"]
            /\ UNCHANGED arg
  /\ UNCHANGED <<qvars, tmp, count, runs, stop_requested, stop_life,
                 nextId, removed, arrivals>>

\* for (i = 0; i < num_threads; ++i) tasks.enqueue([&] { l.arrive_and_wait(); });
MainEnqueueBarrier ==
  /\ pc[main] = "enq_barrier"
  /\ IF BarrierLoopCond(i)
       THEN /\ arg' = [arg EXCEPT ![main] = BarrierTask]
            /\ pc' = [pc EXCEPT ![main] = "enq_acquire"]
       ELSE /\ pc' = [pc EXCEPT ![main] = "main_arrive"]
            /\ UNCHANGED arg
  /\ UNCHANGED <<qvars, tmp, hvars, nextId, removed>>

\* enqueue returns to main: ++i, back to the test of the loop that called it.
MainEnqueueReturn ==
  /\ pc[main] = "enq_ret"
  /\ i' = i + 1
  /\ pc' = [pc EXCEPT ![main] =
              IF arg[main].kind = "work" THEN "enq_work" ELSE "enq_barrier"]
  /\ arg' = [arg EXCEPT ![main] = NoItem]
  /\ UNCHANGED <<qvars, tmp, count, runs, stop_requested, stop_life, l, l_life,
                 nextId, removed, arrivals>>

\* l.arrive_and_wait() in main: the arrival.
MainArrive ==
  /\ pc[main] = "main_arrive"
  /\ l' = LatchArrive(l)
  /\ pc' = [pc EXCEPT ![main] = "main_wait"]
  /\ UNCHANGED <<qvars, arg, tmp, count, runs, i, stop_requested, stop_life, l_life,
                 nextId, removed, arrivals>>

\* MainWait without the wait: main goes on whatever the latch's counter.
MainWaitNoWait ==
  /\ pc[main] = "main_wait"
  /\ pc' = [pc EXCEPT ![main] = "set_stop"]
  /\ UNCHANGED <<qvars, arg, tmp, hvars, nextId, removed>>

\* l.arrive_and_wait() in main: the wait, until the latch's counter is zero.
MainWait ==
  /\ pc[main] = "main_wait"
  /\ LatchReady(l)
  /\ pc' = [pc EXCEPT ![main] = "set_stop"]
  /\ UNCHANGED <<qvars, arg, tmp, hvars, nextId, removed>>

\* stop_requested.store(true, std::memory_order_relaxed)
MainSetStop ==
  /\ pc[main] = "set_stop"
  /\ stop_requested' = TRUE
  /\ pc' = [pc EXCEPT ![main] = "destroy_l"]
  /\ UNCHANGED <<qvars, arg, tmp, count, runs, i, stop_life, l, l_life,
                 nextId, removed, arrivals>>

\* The end of the loop body: locals are destroyed in reverse order of
\* declaration, so the latch l goes first.
MainDestroyLatch ==
  /\ pc[main] = "destroy_l"
  /\ l_life' = "destroyed"
  /\ i' = 0
  /\ pc' = [pc EXCEPT ![main] = "join"]
  /\ UNCHANGED <<qvars, arg, tmp, count, runs, stop_requested, stop_life, l,
                 nextId, removed, arrivals>>

\* ~thread_group: for (auto& t : members) t.join(); each join blocks until
\* that thread's function has returned.
MainJoin ==
  /\ pc[main] = "join"
  /\ IF i < num_threads
       THEN /\ pc[i + 1] = "terminated"
            /\ pc' = [pc EXCEPT ![i + 1] = "joined"]
            /\ i' = i + 1
       ELSE /\ pc' = [pc EXCEPT ![main] = "round_end"]
            /\ i' = 0
  /\ UNCHANGED <<qvars, arg, tmp, count, runs, stop_requested, stop_life, l, l_life,
                 nextId, removed, arrivals>>

\* stop_requested is destroyed, the round's storage is released, ++runs.
MainRoundEnd ==
  /\ pc[main] = "round_end"
  /\ stop_life' = "destroyed"
  /\ l_life' = "none"
  /\ runs' = runs + 1
  /\ pc' = [pc EXCEPT ![main] = "round_begin"]
  /\ UNCHANGED <<qvars, arg, tmp, count, i, stop_requested, l,
                 nextId, removed, arrivals>>

\* assert(num_runs * num_enqueues_per_run == count)
MainFinalAssert ==
  /\ pc[main] = "final_assert"
  /\ pc' = IF num_runs * num_enqueues_per_run = count
             THEN [pc EXCEPT ![main] = "done"]
             ELSE AbortBy(main)
  /\ UNCHANGED <<qvars, arg, tmp, hvars, nextId, removed>>

----------------------------------------------------------------------------
(* The consumer lambda, run by thread c. *)

\* ConsumerLoop with the test inverted: while (stop_requested.load(...)).
ConsumerLoopInverted(c) ==
  /\ pc[c] = "loop"
  /\ pc' = [pc EXCEPT ![c] = IF stop_requested THEN "deq_try" ELSE "terminated"]
  /\ UNCHANGED <<qvars, arg, tmp, hvars, nextId, removed>>

\* while (!stop_requested.load(std::memory_order_relaxed)): the loop test, and
\* the call of tasks.try_dequeue_for(1ms) when it passes.
ConsumerLoop(c) ==
  /\ pc[c] = "loop"
  /\ pc' = [pc EXCEPT ![c] = IF stop_requested THEN "terminated" ELSE "deq_try"]
  /\ UNCHANGED <<qvars, arg, tmp, hvars, nextId, removed>>

\* auto f = tasks.try_dequeue_for(...); if (f) { assert(*f); (*f)(); }
\* A work task is ++count; a barrier task is l.arrive_and_wait(), whose
\* arrival happens here and whose wait is ConsumerLatchWait.  A latch that
\* has been destroyed is a dangling reference: the thread may do anything,
\* which "ub" stands for.
ConsumerRun(c) ==
  /\ pc[c] = "deq_ret"
  /\ tmp' = [tmp EXCEPT ![c] = NoItem]
  /\ CASE tmp[c].kind = "none" ->
            /\ pc' = [pc EXCEPT ![c] = "loop"]
            /\ UNCHANGED <<count, l, arrivals>>
       [] tmp[c].kind = "work" ->
            /\ count' = count + 1
            /\ pc' = [pc EXCEPT ![c] = "loop"]
            /\ UNCHANGED <<l, arrivals>>
       [] tmp[c].kind = "barrier" ->
            /\ arrivals' = [arrivals EXCEPT ![c] = @ + 1]
            /\ IF l_life = "alive"
                 THEN /\ l' = LatchArrive(l)
                      /\ pc' = [pc EXCEPT ![c] = "latch_wait"]
                 ELSE /\ l' = l
                      /\ pc' = [pc EXCEPT ![c] = "ub"]
            /\ UNCHANGED count
  /\ UNCHANGED <<qvars, arg, runs, i, stop_requested, stop_life, l_life,
                 nextId, removed>>

\* l.arrive_and_wait() in a barrier task: the wait.  While the latch lives it
\* returns once the counter is zero.  Once main has destroyed the latch the
\* waiter reads a dead object: it may return as if nothing had happened, or
\* never return.
ConsumerLatchWait(c) ==
  /\ pc[c] = "latch_wait"
  /\ \/ /\ LatchReady(l)
        /\ pc' = [pc EXCEPT ![c] = "loop"]
     \/ /\ l_life = "destroyed"
        /\ pc' = [pc EXCEPT ![c] = "ub"]
  /\ UNCHANGED <<qvars, arg, tmp, hvars, nextId, removed>>

Next ==
  \/ MainRoundBegin
  \/ MainSpawn
  \/ MainEnqueueWork
  \/ MainEnqueueBarrier
  \/ MainEnqueueReturn
  \/ EnqAcquire(main)
  \/ EnqLock(main)
  \/ EnqEmplace(main)
  \/ EnqUnlock(main)
  \/ EnqRelease(main)
  \/ MainArrive
  \/ MainWait
  \/ MainSetStop
  \/ MainDestroyLatch
  \/ MainJoin
  \/ MainRoundEnd
  \/ MainFinalAssert
  \/ \E c \in Consumers : ConsumerLoop(c)
  \/ \E c \in Consumers : DeqTryAcquire(c)
  \/ \E c \in Consumers : DeqLock(c)
  \/ \E c \in Consumers : DeqFrontPop(c)
  \/ \E c \in Consumers : DeqUnlock(c)
  \/ \E c \in Consumers : DeqRelease(c)
  \/ \E c \in Consumers : ConsumerRun(c)
  \/ \E c \in Consumers : ConsumerLatchWait(c)

Spec == Init /\ [][Next]_vars

\* The steps of the main thread and of consumer c.
MainStep ==
  \/ MainRoundBegin \/ MainSpawn \/ MainEnqueueWork \/ MainEnqueueBarrier
  \/ MainEnqueueReturn \/ EnqAcquire(main) \/ EnqLock(main) \/ EnqEmplace(main)
  \/ EnqUnlock(main) \/ EnqRelease(main) \/ MainArrive \/ MainWait \/ MainSetStop
  \/ MainDestroyLatch \/ MainJoin \/ MainRoundEnd \/ MainFinalAssert
ConsumerStep(c) ==
  \/ ConsumerLoop(c) \/ DeqTryAcquire(c) \/ DeqLock(c) \/ DeqFrontPop(c)
  \/ DeqUnlock(c) \/ DeqRelease(c) \/ ConsumerRun(c) \/ ConsumerLatchWait(c)

\* A fair scheduler: a thread that can take a step, and stays able to, takes it.
LiveSpec ==
  /\ Spec
  /\ WF_vars(MainStep)
  /\ \A c \in Consumers : WF_vars(ConsumerStep(c))

----------------------------------------------------------------------------
(* The queue's contract, checked under QueueSpec. *)

\* The ids of the items resident in q, in order.
Ids(q) == [k \in DOMAIN q |-> q[k].id]
\* How often n occurs in the sequence of ids sq.
Occurrences(sq, n) == Cardinality({k \in DOMAIN sq : sq[k] = n})

C2_NoLossNoDuplicate ==
  /\ \A n \in 1..(nextId - 1) :
       Occurrences(removed, n) + Occurrences(Ids(items), n) = 1
  /\ \A k \in DOMAIN removed : removed[k] \in 1..(nextId - 1)
  /\ \A k \in DOMAIN items : items[k].id \in 1..(nextId - 1)
  /\ \A t \in Threads :
       tmp[t] # NoItem =>
         /\ tmp[t].kind \in {"work", "barrier"}
         /\ Occurrences(removed, tmp[t].id) = 1
         /\ \A u \in Threads \ {t} : tmp[u].id # tmp[t].id

\* Two consumers each return an item while a third item is resident.
C2_Witness ==
  \E t, u \in Consumers :
    /\ t # u
    /\ pc[t] = "deq_ret" /\ tmp[t] # NoItem
    /\ pc[u] = "deq_ret" /\ tmp[u] # NoItem
    /\ items # <<>>
    /\ Len(removed) >= 2

\* C4: items.size() never exceeds the capacity N.
C4_CapacityBound == Len(items) <= N

\* The queue is full and a producer is blocked in remaining_space.acquire().
C4_Witness ==
  /\ Len(items) = N
  /\ remaining_space = 0
  /\ \E p \in Producers : pc[p] = "enq_acquire"

\* C5: items leave in the order they were appended: the k-th item taken by
\* try_dequeue_for is the k-th item appended, and the resident items are in
\* the order of their appends, all after the items already taken.
C5_Fifo ==
  /\ \A k \in DOMAIN removed : removed[k] = k
  /\ \A k \in DOMAIN items : items[k].id = Len(removed) + k

\* Two items were taken and a consumer is about to take the first of two more.
C5_Witness ==
  /\ Len(removed) >= 2
  /\ Len(items) >= 2
  /\ \E t \in Consumers : pc[t] = "deq_front"

----------------------------------------------------------------------------
(* The harness's contract, checked under Spec and LiveSpec. *)

\* Main has arrived at the round's latch.
MainArrived == pc[main] \in {"main_wait", "set_stop", "destroy_l"}
\* The arrivals the round's latch has received.
ArrivalsOf(S) == Cardinality({c \in S : arrivals[c] >= 1})
\* Main is past the latch in the current round.
PastLatch == pc[main] \in {"set_stop", "destroy_l", "join", "round_end"}

\* C3: the work tasks run in a round are num_enqueues_per_run, so count is
\* runs * num_enqueues_per_run when a round begins, one round's worth more
\* when it ends, and the final assertion holds.
C3_CountMatches ==
  /\ pc[main] = "round_begin" => count = runs * num_enqueues_per_run
  /\ pc[main] = "round_end" => count = (runs + 1) * num_enqueues_per_run
  /\ pc[main] \in {"final_assert", "done"} => count = num_runs * num_enqueues_per_run
  /\ pc[main] # "assert_failed"

\* All rounds have run and the final assertion has passed.
C3_Witness ==
  /\ pc[main] = "done"
  /\ runs = num_runs
  /\ count = num_runs * num_enqueues_per_run
  /\ count > 0

\* C6: in every round no consumer runs two barrier tasks, the latch's counter
\* is its expected value less one per arrival and never negative, and once
\* main is past the latch every consumer has run exactly one barrier task.
C6_OneArrivalEach ==
  /\ \A c \in Consumers : arrivals[c] <= 1
  /\ l >= 0
  /\ l_life = "alive" =>
       l = LatchExpected - ArrivalsOf(Consumers) - (IF MainArrived THEN 1 ELSE 0)
  /\ PastLatch => /\ \A c \in Consumers : arrivals[c] = 1
                  /\ l = 0

\* The second round's latch has released with every consumer arrived once.
C6_Witness ==
  /\ runs = 1
  /\ pc[main] = "set_stop"
  /\ l = 0
  /\ \A c \in Consumers : arrivals[c] = 1

\* C7: while the round's stop_requested is true the latch has released, main
\* is past its store, all the round's work tasks have run, nothing is left in
\* the queue and no consumer holds a task it has not run; a consumer that
\* has terminated left nothing behind.
C7_StopOnlyAfterBarrier ==
  /\ (stop_life = "alive" /\ stop_requested) =>
       /\ pc[main] \in {"destroy_l", "join", "round_end"}
       /\ LatchReady(l)
       /\ count = (runs + 1) * num_enqueues_per_run
       /\ items = <<>>
       /\ \A c \in Consumers : tmp[c] = NoItem
  /\ \A c \in Consumers :
       pc[c] \in {"terminated", "joined"} => items = <<>> /\ tmp[c] = NoItem

\* stop_requested has just been set while a consumer is still inside
\* arrive_and_wait and another is polling.
C7_Witness ==
  /\ stop_life = "alive" /\ stop_requested
  /\ pc[main] = "destroy_l"
  /\ \E c, d \in Consumers : pc[c] = "latch_wait" /\ pc[d] = "deq_try"

\* C8: the queue is empty when a round starts, before its consumers are
\* created, and when it ends, after they are joined.
C8_RoundIsolation ==
  (pc[main] \in {"round_begin", "round_end"} \/ (pc[main] = "spawn" /\ i = 0)) =>
    /\ items = <<>>
    /\ \A t \in Threads : tmp[t] = NoItem /\ arg[t] = NoItem

\* The second round ends after its items went through the queue.
C8_Witness ==
  /\ pc[main] = "round_end"
  /\ runs = 1
  /\ Len(removed) = num_runs * (num_enqueues_per_run + num_threads)

\* C9: when the round's latch or stop_requested has been destroyed, every
\* consumer of the round has been joined.
C9_JoinedBeforeDestroyed ==
  (l_life = "destroyed" \/ stop_life = "destroyed") =>
    \A c \in Consumers : pc[c] = "joined"

\* C10: under fair scheduling every enqueue call of main returns, and every
\* round that starts reaches the release of its latch.
C10_NoDeadlock ==
  /\ (pc[main] = "enq_acquire") ~> (pc[main] = "enq_ret")
  /\ (pc[main] = "spawn") ~> (pc[main] = "set_stop")

\* Main waits in remaining_space.acquire() on a full queue in the second round.
C10_Witness ==
  /\ runs = 1
  /\ pc[main] = "enq_acquire"
  /\ remaining_space = 0
  /\ Len(items) = N

C12_TimeoutLeavesQueueUnchanged ==
  [][\A t \in Threads :
       /\ (pc[t] = "deq_try" /\ pc'[t] # "deq_try" /\ ~SemCanAcquire(items_produced)) =>
            /\ pc'[t] = "deq_ret"
            /\ tmp'[t] = NoItem
            /\ UNCHANGED qvars
       /\ (pc[t] = "deq_try" /\ pc'[t] = "deq_ret") =>
            /\ tmp'[t] = NoItem
            /\ UNCHANGED qvars
       /\ (pc[t] = "deq_release" /\ pc'[t] = "deq_ret") => tmp'[t] # NoItem
    ]_vars

\* A call has timed out and returned empty although an item is resident: its
\* producer has appended it and not yet released items_produced.
C12_Witness ==
  \E t \in Consumers : \E p \in Producers :
    /\ pc[t] = "deq_ret" /\ tmp[t] = NoItem
    /\ pc[p] = "enq_release"
    /\ Len(items) = 1
    /\ items_produced = 0
    /\ remaining_space = N - 1

\* The threads that have appended to items and not yet released
\* items_produced, and those that have acquired items_produced and not yet
\* popped.
AppendedNotReleased == {t \in Threads : pc[t] \in {"enq_unlock", "enq_release"}}
AcquiredNotPopped == {t \in Threads : pc[t] \in {"deq_lock", "deq_front"}}

\* C14 as stated: items.size() equals the value of items_produced in every
\* reachable state.
C14_SizeEqualsProduced == Len(items) = items_produced

\* C14 amended: items.size() equals the value of items_produced whenever no
\* enqueue is between its append and its release and no try_dequeue_for is
\* between its acquire and its pop.
C14_SizeEqualsProducedAtRest ==
  (AppendedNotReleased = {} /\ AcquiredNotPopped = {}) => Len(items) = items_produced

\* Two items are resident and counted while one producer waits for a slot it
\* cannot yet append to and a consumer polls.
C14_Witness ==
  /\ AppendedNotReleased = {} /\ AcquiredNotPopped = {}
  /\ Len(items) = 2 /\ items_produced = 2
  /\ \E p \in Producers : pc[p] = "enq_lock"
  /\ \E t \in Consumers : pc[t] = "deq_try"
  /\ Len(removed) >= 1

\* The threads about to acquire or release one of the semaphores.
AtSemaphore ==
  {t \in Threads : pc[t] \in {"enq_acquire", "enq_release", "deq_try", "deq_release"}}

\* C15: no thread holds items_mtx while it acquires or releases a semaphore;
\* items_produced is released only by an enqueue that has appended its item
\* and unlocked, and the unit released stands for an item that is resident
\* and that no unit, free or held by a consumer, stands for yet.
C15_ReleaseAfterAppendAndUnlock ==
  /\ [](\A t \in AtSemaphore : items_mtx # t)
  /\ [][ /\ \A t \in Threads :
              (pc'[t] # pc[t] /\ <<items_produced, remaining_space>>' #
                                   <<items_produced, remaining_space>>)
                => items_mtx # t /\ items_mtx' # t
         /\ items_produced' > items_produced =>
              /\ \E t \in AppendedNotReleased :
                    pc[t] = "enq_release" /\ pc'[t] = "enq_ret"
              /\ items_produced' = items_produced + 1
              /\ items' = items
              /\ Len(items) >= items_produced' + Cardinality(AcquiredNotPopped)
       ]_vars

\* A producer releases items_produced, the lock free, while another producer
\* holds the lock to append and a consumer holds a unit for the first item.
C15_Witness ==
  \E p, q \in Producers : \E t \in Consumers :
    /\ pc[p] = "enq_release"
    /\ pc[q] = "enq_emplace" /\ items_mtx = q
    /\ pc[t] = "deq_lock"
    /\ Len(items) = 2
    /\ items_produced = 0

\* The positions of a consumer thread, by the state of the consumer's state
\* machine they belong to.  Polling runs from the loop test to the return of
\* try_dequeue_for; a work task runs within the step that finds it, and a
\* barrier task keeps its consumer inside arrive_and_wait.
NotStarted == {"unstarted"}
Running == {"loop", "deq_try", "deq_lock", "deq_front", "deq_unlock", "deq_release",
            "deq_ret"}
Executing == {"latch_wait", "ub"}
Terminated == {"terminated", "joined"}

\* C16: a consumer is only ever polling, executing a task it dequeued, or
\* terminated (or not yet started); a task returned by try_dequeue_for is run
\* once, in the consumer's next step and before it polls again, and count and
\* the barrier arrivals change only so; a consumer calls try_dequeue_for only
\* after reading stop_requested false, and terminates only from the loop
\* test, after reading stop_requested true, holding no task.
C16_ConsumerStateMachine ==
  /\ [](\A c \in Consumers :
          pc[c] \in NotStarted \cup Running \cup Executing \cup Terminated)
  /\ [][ /\ \A c \in Consumers :
              /\ (pc[c] = "deq_ret" /\ pc'[c] # "deq_ret") =>
                   /\ tmp'[c] = NoItem
                   /\ tmp[c].kind = "none" =>
                        pc'[c] = "loop" /\ count' = count /\ arrivals' = arrivals
                   /\ tmp[c].kind = "work" =>
                        pc'[c] = "loop" /\ count' = count + 1 /\ arrivals' = arrivals
                   /\ tmp[c].kind = "barrier" =>
                        /\ pc'[c] \in Executing
                        /\ count' = count
                        /\ arrivals' = [arrivals EXCEPT ![c] = @ + 1]
              /\ (pc[c] # "deq_ret" /\ tmp[c] # NoItem) => tmp'[c] = tmp[c]
              /\ arrivals'[c] > arrivals[c] => pc[c] = "deq_ret" /\ tmp[c].kind = "barrier"
              /\ (pc'[c] = "deq_try" /\ pc[c] # "deq_try") =>
                   pc[c] = "loop" /\ ~stop_requested /\ tmp[c] = NoItem
              /\ (pc'[c] \in Terminated /\ pc[c] \notin Terminated) =>
                   pc[c] = "loop" /\ stop_requested /\ tmp[c] = NoItem
         /\ count' # count =>
              \E c \in Consumers : pc[c] = "deq_ret" /\ tmp[c].kind = "work"
       ]_vars

\* One consumer has terminated while the other is still inside the barrier
\* task it dequeued, after the round's work tasks were run.
C16_Witness ==
  \E c, d \in Consumers :
    /\ pc[c] = "terminated"
    /\ pc[d] = "latch_wait"
    /\ runs = 0
    /\ count = num_enqueues_per_run

\* The threads inside one of the two scoped_lock blocks.
InCriticalSection ==
  {t \in Threads : pc[t] \in {"enq_emplace", "enq_unlock", "deq_front", "deq_unlock"}}

\* C17: at most one thread is inside a scoped_lock block and it is the holder
\* of items_mtx; items changes only in a step of the thread that holds
\* items_mtx, from inside its block, and so does the read of items.front().
C17_ItemsOnlyUnderLock ==
  /\ [](/\ Cardinality(InCriticalSection) <= 1
        /\ \A t \in InCriticalSection : items_mtx = t
        /\ items_mtx # NoThread => items_mtx \in InCriticalSection)
  /\ [][ /\ items' # items =>
              \E t \in InCriticalSection :
                 /\ items_mtx = t
                 /\ pc[t] \in {"enq_emplace", "deq_front"}
                 /\ pc'[t] # pc[t]
                 /\ \A u \in Threads \ {t} : pc'[u] = pc[u]
         /\ \A t \in Threads :
              (tmp'[t] # tmp[t] /\ tmp'[t] # NoItem) =>
                 items_mtx = t /\ pc[t] = "deq_front" /\ tmp'[t] = Front(items)
       ]_vars

\* A producer is appending under the lock while another producer and a
\* consumer that holds a unit both wait for the lock.
C17_Witness ==
  \E p, q \in Producers : \E t \in Consumers :
    /\ pc[p] = "enq_emplace" /\ items_mtx = p
    /\ pc[q] = "enq_lock"
    /\ pc[t] = "deq_lock"
    /\ Len(items) = 1

\* The threads that have acquired remaining_space and not yet appended, and
\* those that have popped and not yet released remaining_space.
AcquiredNotAppended == {t \in Threads : pc[t] \in {"enq_lock", "enq_emplace"}}
PoppedNotReleased == {t \in Threads : pc[t] \in {"deq_unlock", "deq_release"}}

\* C18: items.size() is the value of items_produced plus the consumers that
\* have acquired items_produced and not yet popped plus the producers that
\* have appended and not yet released items_produced; so the value never
\* exceeds items.size().
C18_ProducedAccounting ==
  /\ Len(items) = items_produced + Cardinality(AcquiredNotPopped)
                                 + Cardinality(AppendedNotReleased)
  /\ items_produced <= Len(items)

\* All three terms are non-zero at once.
C18_Witness ==
  /\ items_produced = 1
  /\ Cardinality(AcquiredNotPopped) = 1
  /\ Cardinality(AppendedNotReleased) = 1
  /\ Len(items) = 3

\* C19: the value of remaining_space, items.size(), the producers that have
\* acquired remaining_space and not yet appended and the consumers that have
\* popped and not yet released remaining_space add up to N.
C19_SpaceAccounting ==
  remaining_space + Len(items) + Cardinality(AcquiredNotAppended)
                  + Cardinality(PoppedNotReleased) = N

\* All four terms are non-zero at once.
C19_Witness ==
  /\ remaining_space = 0
  /\ Len(items) = 1
  /\ Cardinality(AcquiredNotAppended) = 1
  /\ Cardinality(PoppedNotReleased) = 1
  /\ \E p \in Producers : pc[p] = "enq_acquire"

\* C20: neither semaphore leaves the range 0..N of counting_semaphore<N>.
C20_SemaphoresInRange ==
  /\ items_produced \in 0..N
  /\ remaining_space \in 0..N

\* items_produced is at its maximum and remaining_space at zero, with a
\* producer blocked in remaining_space.acquire().
C20_Witness ==
  /\ items_produced = N
  /\ remaining_space = 0
  /\ \E p \in Producers : pc[p] = "enq_acquire"

====
